---- MODULE Spec2Model ----
(***************************************************************************)
(* LabMonitor: the job scheduler (labmonitor/queue_job.py, QueueJob), the  *)
(* reservation manager (labmonitor/queue.py, Queue) and the persistence    *)
(* of their tables, as state machines.                                     *)
(*                                                                         *)
(* Job scheduler.  One supervisor process runs QueueJob.monitor: a tick    *)
(* (__monitor_now) reloads the jobs table, refreshes the host table,       *)
(* probes the running rows and then dispatches every row in table order.   *)
(* Copy-back workers are threads of the same process that share self.df.   *)
(* Atomic steps: the refresh part of a tick, the dispatch of one row, one  *)
(* stage of a copy-back worker, a restart of the supervisor.               *)
(*                                                                         *)
(* Reservation manager.  Queue.monitor runs __monitor_now twice a day; the *)
(* dashboard inserts rows.  Atomic steps: an insert, a tick, the change of *)
(* the date.                                                               *)
(*                                                                         *)
(* Persistence.  The three table files and their _old siblings, one file   *)
(* system operation of a save per step, the crash of the process, and the  *)
(* load of a jobs table whose file is absent.                              *)
(*                                                                         *)
(* Spec, SpecResv and SpecSave move one of the three parts and hold the    *)
(* others.  SpecGpu, SpecTwin and SpecUsers are Spec on other tables:      *)
(* queues with GPU jobs (a user whose gpu_limit is 0, a blocked model, a   *)
(* request above the CPU reserve), an h2 with two GPUs of one model, a     *)
(* users.csv without a default row.  SpecThreads splits __pending and      *)
(* __not_finished_correctly into their statements, so that the workers     *)
(* run between them.  SpecHosts is update_status_machines statement by     *)
(* statement, with hosts that do not answer, on an empty jobs table.       *)
(* SpecTrip is Queue.insert and Queue.remove with the row labels of the    *)
(* reservations table.  SpecSubmit adds the dashboard's submit, which      *)
(* writes the jobs file from its own read of it.  SpecLive is Spec on one  *)
(* job with the supervisor loop and the copy-back workers scheduled        *)
(* fairly.                                                                 *)
(***************************************************************************)
EXTENDS Integers, Sequences, FiniteSets, TLC

\* ------------------------------------------------------------------ bounds
\* e-mails counted per row and kind (the counters stop there)
MaxMail == 2
\* live copy-back workers followed per row (a thread started while that many
\* are live is started and not followed)
MaxWorkers == 1
\* rows of the jobs table once the dashboard has submitted
MaxJobs == 2
\* writes of the fim cell of a row that get a time of their own (the later
\* ones repeat the last time)
MaxStamp == 2
\* calls of __send_mail counted per reservation and kind (the counters stop there)
MaxTries == 2
\* rows in the reservations table
MaxResv == 2
\* rows in the reservations table of the dashboard's insert and remove
MaxTrip == 3
\* the last day of the calendar (days are counted from 0)
MaxDay == 2

\* ------------------------------------------------------- program constants
\* search_available_machine(..., n_cpu_reserve=6) in __pending
n_cpu_reserve == 6
\* limit_job(index, job_limit_per_user=3): the limit when no users row applies
job_limit_per_user == 3
\* get_status_job / start_job return -1 as the pid when the transport failed
PidFail == -1
\* a gpu_index cell that holds NaN (prepare_job turns it into gpu_id -1)
NaNIdx == -1

\* ------------------------------------------------------------ the catalog
VARIABLES
  gpus,       \* host h2: the GPU models its probe reports (gpu_info) and the
              \* name_allowed_gpu cell of its row in machines_job.csv
  users       \* users.csv as read_users leaves it in Data.users

cvars == <<gpus, users>>

\* machines_job.csv, in file order: h1 has no GPU (update_gpu gives it the
\* synthetic GPU_0 "Null"), h2 has two GPUs.
Catalog == <<"h1", "h2">>
HostSet == {Catalog[k] : k \in DOMAIN Catalog}
HostCfg ==
  [h \in HostSet |->
     IF h = "h1"
     THEN [allowed_cpu |-> 4, gpu_info |-> <<>>, name_allowed_gpu |-> <<"Null">>]
     ELSE [allowed_cpu |-> 8, gpu_info |-> gpus.gpu_info,
           name_allowed_gpu |-> gpus.name_allowed_gpu]]
\* h2 with a GPU of model A and one of model B, both names in its allow-list
MixedGpus == [gpu_info |-> <<"A", "B">>, name_allowed_gpu |-> <<"A", "B">>]
\* h2 with two GPUs of model B and B in its allow-list
TwinGpus == [gpu_info |-> <<"B", "B">>, name_allowed_gpu |-> <<"B">>]
\* the GPU_{i}_Name / GPU_{i}_status columns of the merged host table (i = index - 1)
GpuCols == 1..2

\* users.csv: u1 has a row of its own, every other user takes the default row
Users ==
  [username |-> <<"u1", "default">>,
   simultaneous_jobs_limit |-> <<1, 2>>,
   gpu_limit |-> <<0, 1>>]
\* users.csv with the row of u1 and no default row
UsersNoDefault ==
  [username |-> <<"u1">>,
   simultaneous_jobs_limit |-> <<1>>,
   gpu_limit |-> <<0>>]

\* ------------------------------------------------------------------ cells
NaN == "nan"
\* taskset cell in memory: NaN, a str ("0,1", "0", "0.0" or ""), or a number
\* (the column parsed as int64 / float64 by read_csv)
NaNCell == [kind |-> "nan", txt |-> "empty", cores |-> {}]
StrCell(S) ==
  [kind |-> "str",
   txt |-> IF S = {} THEN "empty" ELSE IF Cardinality(S) = 1 THEN "digits" ELSE "list",
   cores |-> S]

\* ------------------------------------------------------------------ state
VARIABLES
  df,        \* QueueJob.df: the jobs table in memory (shared with the workers)
  disk,      \* queue_job.csv
  machines,  \* Data.machines as saved in machines_job.csv
  cursor,    \* 0: sleeping between ticks; i in 1..n: about to dispatch row i; n+1: loop done
  snap,      \* the rows as df.iterrows() yields them (statuses at loop start)
  alive,     \* FALSE once an exception has left QueueJob.monitor
  workers,   \* per row: <<threads before the status flip, threads copying>>
  startMails,\* per row: job-started e-mails accepted by the provider
  endMails,  \* per row: job-finished / job-failed e-mails accepted
  smtp,      \* TRUE: the mail provider accepts what is sent; FALSE: every send fails
  scp,       \* TRUE: scp copies the tree back to the origin host; FALSE: it fails
  ranAtLoad, \* rows that were running when this tick refreshed the host table
  placedNow, \* rows placed by this tick
  probeFail, \* rows whose probe failed in this tick (connection or status file)
  ordPairs,  \* <<A, B, H>>: pending rows A before B contending for host H in this tick
  noFile,    \* rows whose execution directory holds no labmonitor.status
  deadPid,   \* rows whose probe in this tick read `running` with the pid absent
  outFail,   \* rows placed by this tick whose copy to the execution host failed
  restarted  \* TRUE from a restart of the supervisor to the end of its first tick

jvars == <<df, disk, machines, cursor, snap, alive, workers, startMails, endMails,
           smtp, scp, ranAtLoad, placedNow, probeFail, ordPairs, noFile, deadPid,
           outFail, restarted>>

VARIABLES
  qdf,        \* queue.xlsx, the reservations table (Queue.df after read_excel)
  today,      \* the date
  fistMails,  \* per reservation: first-day e-mails accepted by the provider
  lastMails,  \* per reservation: last-day e-mails accepted
  fistTries,  \* per reservation: calls of __send_mail for the first-day e-mail
  lastTries,  \* per reservation: calls of __send_mail for the last-day e-mail
  labels      \* Queue.df.index: the label of every row of the table in memory

rvars == <<qdf, today, fistMails, lastMails, fistTries, lastTries, labels>>

VARIABLES
  orig,       \* the rows of the table before the last insert
  tpc         \* "inserted" after an insert, "removed" after the remove of the
              \* row it added, else "idle"

pvars == <<orig, tpc>>

VARIABLES
  files,      \* per table: the content of the table file and of its _old sibling
  saving,     \* per table: how far the save in progress has come
  failed      \* per table: the last write raised and no save has started since

fvars == <<files, saving, failed>>

VARIABLES
  pc          \* where the tick thread stands inside a handler: "loop" between two
              \* handlers, "marked" in __pending after the row and the host are
              \* marked, "mailed" in __not_finished_correctly after the mail

tvars == <<pc>>

VARIABLES
  mfile,      \* machines_job.csv as the host-table refresh reads and writes it
  mold,       \* machines_job_old.csv, the file the last save renamed
  hpc,        \* where update_status_machines stands: "idle", "read", "merged"
  before      \* the hosts machines_job.csv held when the tick read it

hvars == <<mfile, mold, hpc, before>>

vars == <<jvars, rvars, fvars, tvars, hvars, pvars, cvars>>

\* ---------------------------------------------------------------- helpers
Range(s) == {s[k] : k \in DOMAIN s}

RECURSIVE SumOver(_, _)
\* the sum of n[k] over k in S
SumOver(S, n) ==
  IF S = {} THEN 0
  ELSE LET k == CHOOSE x \in S : TRUE IN n[k] + SumOver(S \ {k}, n)

\* the submitted jobs: what QueueJob.submit appends (status, name, taskset, pid, gpu
\* cells are absent, so NaN; an empty gpu selection is written as "" and read as NaN)
Job(u, n, g) == [username |-> u, n_cpu |-> n, gpu_requested |-> g]

\* the tables the runs start from (rows in submit order) and the state of the
\* mail provider and of the copies back to the origin host during the run
Scenarios ==
  { [rows |-> <<Job("u2", 2, <<>>), Job("u2", 2, <<"B">>)>>, smtp |-> TRUE, scp |-> TRUE],
    [rows |-> <<Job("u2", 2, <<"B">>), Job("u2", 2, <<"B">>)>>, smtp |-> TRUE, scp |-> TRUE],
    [rows |-> <<Job("u1", 2, <<>>), Job("u1", 1, <<>>)>>, smtp |-> TRUE, scp |-> TRUE],
    [rows |-> <<Job("u2", 3, <<>>), Job("u2", 2, <<>>)>>, smtp |-> TRUE, scp |-> TRUE],
    [rows |-> <<Job("u2", 2, <<>>), Job("u2", 2, <<"B">>)>>, smtp |-> FALSE, scp |-> FALSE] }

\* an empty datetime cell, and datetime.now() when the cell holds fim: the
\* times are numbered in the order of the writes
NaT == 0
datetime_now(fim) == IF fim < MaxStamp THEN fim + 1 ELSE fim

submit(k) ==
  [username |-> k.username, n_cpu |-> k.n_cpu, gpu_requested |-> k.gpu_requested,
   status |-> "", name |-> NaN, taskset |-> [kind |-> "txt", txt |-> "empty", cores |-> {}],
   gpu_name |-> NaN, gpu_index |-> NaNIdx, pid |-> 0,
   notification_start |-> "N", notification_end |-> "N", fim |-> NaT]

\* ------------------------------------------------- queue_job.csv round trip
\* DataFrame.to_csv: NaN and "" are both written as an empty field; an int64
\* taskset is written as "0", a float64 one as "0.0", a str as it is.
to_csv_cell(c) ==
  [kind |-> "txt",
   txt |-> CASE c.kind = "nan" -> "empty"
             [] c.kind = "int" -> "digits"
             [] c.kind = "float" -> "decimal"
             [] OTHER -> c.txt,
   cores |-> c.cores]

to_csv(d) ==
  [k \in DOMAIN d |->
     [d[k] EXCEPT !.status = IF @ = NaN THEN "" ELSE @,
                  !.taskset = to_csv_cell(@)]]

\* pd.read_csv: an empty field is NaN; a column whose non-empty fields are all
\* numbers is parsed as numbers (int64 when none is empty and none has a
\* decimal point, float64 otherwise), any other column keeps its fields as str.
read_csv(f) ==
  LET cells == {f[k].taskset : k \in DOMAIN f}
      numeric == \A c \in cells : c.txt \in {"empty", "digits", "decimal"}
      allInt == \A c \in cells : c.txt = "digits"
      cell(c) ==
        IF c.txt = "empty" THEN NaNCell
        ELSE IF numeric
             THEN [kind |-> IF allInt THEN "int" ELSE "float", txt |-> "empty", cores |-> c.cores]
             ELSE [kind |-> "str", txt |-> c.txt, cores |-> c.cores]
  IN [k \in DOMAIN f |->
        [f[k] EXCEPT !.status = IF @ = "" THEN NaN ELSE @,
                     !.taskset = cell(@)]]

\* ------------------------------------------------- the host table refresh
Col(h, c) == IF c \in DOMAIN HostCfg[h].gpu_info THEN HostCfg[h].gpu_info[c] ELSE NaN

\* update_gpu: the probed GPU names; a host without GPU gets GPU_0 "Null"; the
\* columns a host lacks are NaN after the merge.  The statuses are carried over.
update_gpu(m) ==
  [h \in HostSet |->
     [m[h] EXCEPT !.gpu_name =
        [c \in GpuCols |->
           IF HostCfg[h].gpu_info = <<>> THEN (IF c = 1 THEN "Null" ELSE NaN)
           ELSE Col(h, c)]]]

RECURSIVE allowed_status(_, _, _)
\* the inner loop of __allowed_gpu over the names of name_allowed_gpu: every
\* name overwrites the status, so the last name decides
allowed_status(names, model, st) ==
  IF names = <<>> THEN st
  ELSE allowed_status(Tail(names), model,
                      IF Head(names) = model THEN "available" ELSE "bloqueada")

allowed_gpu(m) ==
  [h \in DOMAIN m |->
     [m[h] EXCEPT !.gpu_status =
        [c \in GpuCols |->
           IF \E g \in DOMAIN m : m[g].gpu_name[c] # NaN
           THEN allowed_status(HostCfg[h].name_allowed_gpu, m[h].gpu_name[c], @[c])
           ELSE @[c]]]]

RunningRows(d) == {k \in DOMAIN d : d[k].status = "running"}

\* a variant of __update_cpu_used that counts every row still on the host
update_cpu_used_nonterminal(d, m) ==
  [h \in HostSet |->
     [m[h] EXCEPT !.cpu_used =
        SumOver({k \in DOMAIN d : /\ d[k].name = h
                                  /\ d[k].status \in {"running", "copy_finished", "copying",
                                                      "not_finished_correctly"}},
                [k \in DOMAIN d |-> d[k].n_cpu])]]

\* __update_cpu_used: cpu_used is recomputed from the rows in state running
update_cpu_used(d, m) ==
  [h \in DOMAIN m |->
     [m[h] EXCEPT !.cpu_used =
        SumOver({k \in RunningRows(d) : d[k].name = h}, [k \in DOMAIN d |-> d[k].n_cpu])]]

\* __status_in_queue, on the jobs table: a running row with a NaN gpu_index gets 0
status_in_queue_df(d) ==
  [k \in DOMAIN d |->
     IF d[k].status = "running" /\ d[k].gpu_index = NaNIdx
     THEN [d[k] EXCEPT !.gpu_index = 0] ELSE d[k]]

\* a variant of __status_in_queue that leaves the GPU statuses alone
status_in_queue_unmarked(d, m) == m

\* __status_in_queue, on the host table: the GPU of every running row is marked
\* running when the GPU name at the row's index is the row's gpu_name
status_in_queue(d, m) ==
  [h \in DOMAIN m |->
     [m[h] EXCEPT !.gpu_status =
        [c \in GpuCols |->
           IF \E k \in RunningRows(d) :
                /\ d[k].name = h
                /\ (IF d[k].gpu_index = NaNIdx THEN 0 ELSE d[k].gpu_index) = c - 1
                /\ d[k].gpu_name # NaN
                /\ m[h].gpu_name[c] = d[k].gpu_name
           THEN "running" ELSE @[c]]]]

update_status_machines(d, m) ==
  status_in_queue(d, update_cpu_used(d, allowed_gpu(update_gpu(m))))

\* ---------------------------------------------------------- the job probe
\* get_status_job: what the status file and `ps -p` give, or ("", -1) when the
\* connection or the read of the status file fails
ProbeOutcomes ==
  { [status |-> "running", pid |-> 1],
    [status |-> "copy_finished", pid |-> 1],
    [status |-> "not_finished_correctly", pid |-> 1],
    [status |-> "started", pid |-> 1],
    [status |-> "", pid |-> PidFail] }

\* what a probe can meet on the execution host: the connection fails, the
\* status file is absent, or the file holds one of the statuses the job script
\* and get_status_job write, with the pid alive or not
ProbeInputs ==
  { [conn |-> FALSE, file |-> "absent", alive |-> FALSE],
    [conn |-> FALSE, file |-> "running", alive |-> TRUE],
    [conn |-> TRUE, file |-> "absent", alive |-> FALSE],
    [conn |-> TRUE, file |-> "started", alive |-> TRUE],
    [conn |-> TRUE, file |-> "running", alive |-> TRUE],
    [conn |-> TRUE, file |-> "running", alive |-> FALSE],
    [conn |-> TRUE, file |-> "copy_finished", alive |-> FALSE],
    [conn |-> TRUE, file |-> "not_finished_correctly", alive |-> FALSE] }

\* a variant of get_status_job that returns the status of the file without
\* looking for the pid
get_status_job_unchecked(inp) ==
  IF ~inp.conn \/ inp.file = "absent" THEN [status |-> "", pid |-> PidFail]
  ELSE [status |-> inp.file, pid |-> 1]

\* get_status_job: `cat labmonitor.status` split at "-" (an absent file gives ""
\* and the unpacking raises), `running` with the pid not in `ps -p` becomes
\* not_finished_correctly; any exception gives ("", -1)
get_status_job(inp) ==
  IF ~inp.conn \/ inp.file = "absent" THEN [status |-> "", pid |-> PidFail]
  ELSE IF ~inp.alive /\ inp.file = "running" THEN [status |-> "not_finished_correctly", pid |-> 1]
  ELSE [status |-> inp.file, pid |-> 1]

\* update_status_jobs: a running row takes what the probe returns, a NaN status
\* becomes pending (both tests read the row as iterrows yielded it)
update_status_jobs(d, probe) ==
  [k \in DOMAIN d |->
     IF d[k].status = "running"
     THEN [d[k] EXCEPT !.status = probe[k].status, !.pid = probe[k].pid]
     ELSE IF d[k].status = NaN THEN [d[k] EXCEPT !.status = "pending"]
     ELSE d[k]]

\* ------------------------------------------------------------- placement
\* a variant of search_available_machine that applies no filter
search_every_host(m, n_cpu, gpu, gpu_name, reserve) == Catalog

\* a variant of search_available_machine that looks at the free CPUs only
search_free_cpu(m, n_cpu, gpu, gpu_name, reserve) ==
  SelectSeq(Catalog, LAMBDA h : HostCfg[h].allowed_cpu - m[h].cpu_used >= n_cpu)

\* search_available_machine(n_cpu, gpu, gpu_name, cpu_reserve=True, n_cpu_reserve):
\* the hosts of the catalog, in file order, that pass the CPU and GPU filters
search_available_machine(m, n_cpu, gpu, gpu_name, reserve) ==
  LET free(h) == HostCfg[h].allowed_cpu - m[h].cpu_used
      hasNull(h) == \E c \in GpuCols : m[h].gpu_name[c] = "Null"
      withReserve(h) == (free(h) - reserve >= n_cpu) \/ (hasNull(h) /\ free(h) >= n_cpu)
      available_cpu(h) ==
        IF gpu /\ reserve >= n_cpu THEN free(h) >= n_cpu ELSE withReserve(h)
      gpu_status_available(h) == \E c \in GpuCols : m[h].gpu_status[c] = "available"
      gpu_name_match(h) ==
        IF gpu_name[1] # "all"
        THEN \E c \in GpuCols : m[h].gpu_name[c] \in Range(gpu_name)
        ELSE \E c \in GpuCols : m[h].gpu_name[c] # NaN
      filtered(h) ==
        IF gpu_name[1] = "all" \/ gpu_name # <<"Null">>
        THEN /\ available_cpu(h) /\ gpu_status_available(h) /\ gpu_name_match(h)
             /\ ~hasNull(h)
        ELSE available_cpu(h) /\ gpu_status_available(h) /\ gpu_name_match(h)
  IN SelectSeq(Catalog, LAMBDA h : IF gpu THEN filtered(h) ELSE available_cpu(h))

RECURSIVE first_free(_, _, _, _)
\* the loop of __get_taskset: walk t = from .. limit-1, keep the cores that are
\* not taken, stop after n of them
first_free(from, limit, taken, n) ==
  IF from >= limit \/ n = 0 THEN {}
  ELSE IF from \in taken THEN first_free(from + 1, limit, taken, n)
  ELSE {from} \cup first_free(from + 1, limit, taken, n - 1)

\* the taskset cells __get_taskset reads: the rows in state running on the host
TasksetRows(d, h) == {k \in DOMAIN d : d[k].name = h /\ d[k].status = "running"}

\* int(num) raises on "" and on "0.0"
get_taskset_raises(d, h) ==
  \E k \in TasksetRows(d, h) :
     d[k].taskset.kind = "str" /\ d[k].taskset.txt \in {"empty", "decimal"}

\* __get_taskset: only the cells that are str count as taken
get_taskset(d, h, n_cpu) ==
  LET all_task == UNION {d[k].taskset.cores :
                           k \in {x \in TasksetRows(d, h) : d[x].taskset.kind = "str"}}
  IN first_free(0, HostCfg[h].allowed_cpu, all_task, n_cpu)

\* the GPU columns the loop of __pending takes: every column of the chosen host
\* that is available and whose model is requested (the loop has no break)
gpu_taken(m, h, gpu_name) ==
  {c \in GpuCols : /\ m[h].gpu_status[c] = "available"
                   /\ (m[h].gpu_name[c] \in Range(gpu_name) \/ "all" \in Range(gpu_name))}

Max(S) == CHOOSE x \in S : \A y \in S : y <= x

\* a variant of __limit_per_user that lets every row pass
limit_per_user_open(d, index, limit) == TRUE

\* __limit_per_user raises UnboundLocalError: neither the row of the user nor
\* the default row is there, so gpu_limit was never assigned, and line 739 reads
\* it because the user has fewer than limit rows running
limit_per_user_raises(d, index, limit) ==
  /\ \A k \in DOMAIN users.username : users.username[k] \notin {d[index].username, "default"}
  /\ Cardinality({k \in DOMAIN d : d[k].username = d[index].username
                                   /\ d[k].status = "running"}) < limit

\* __limit_per_user: the row of the user, else the default row, else the
\* parameter limit (gpu_limit is then unbound); the value it returns, FALSE
\* standing in where it raises
limit_per_user(d, index, limit) ==
  LET row == d[index]
      pos(u) == {k \in DOMAIN users.username : users.username[k] = u}
      sel == IF pos(row.username) # {} THEN pos(row.username) ELSE pos("default")
      r == CHOOSE k \in sel : \A j \in sel : k <= j
      lim == IF sel # {} THEN users.simultaneous_jobs_limit[r] ELSE limit
      jobs_user_exc ==
        Cardinality({k \in DOMAIN d : d[k].username = row.username /\ d[k].status = "running"})
      jobs_user_gpus ==
        Cardinality({k \in DOMAIN d : /\ d[k].username = row.username
                                      /\ d[k].status = "running"
                                      /\ d[k].gpu_name # NaN})
  IN IF jobs_user_exc < lim
     THEN sel # {} /\ ~(jobs_user_gpus > users.gpu_limit[r] /\ row.gpu_requested # <<>>)
     ELSE FALSE

limit_job(d, index) == limit_per_user(d, index, job_limit_per_user)
limit_job_raises(d, index) == limit_per_user_raises(d, index, job_limit_per_user)

\* ------------------------------------------------------------------ mail
\* __send_mail returns True when the provider accepted the mail, else False
send_mail == smtp

\* a variant of the start-mail step that does not record the flag
start_notified_unflagged(d, index, ok) == d

\* __pending, lines 867-874: the flag of the start mail
start_notified(d, index, ok) ==
  [d EXCEPT ![index].notification_start = IF ok THEN "Y" ELSE @]

\* calls of __send_mail are counted up to MaxTries per row and kind
CountTry(tried, called) == IF called /\ tried < MaxTries THEN tried + 1 ELSE tried

\* accepted mails are counted up to MaxMail per row and kind
Count(sent, ok) == IF ok /\ sent < MaxMail THEN sent + 1 ELSE sent

\* ------------------------------------------------- the parts held still
\* the reservation manager is not running: an empty table
NoReservations ==
  /\ qdf = <<>> /\ today = 0 /\ fistMails = <<>> /\ lastMails = <<>>
  /\ fistTries = <<>> /\ lastTries = <<>> /\ labels = <<>>

\* the host table is not followed statement by statement: the catalog file as
\* the operator wrote it, no backup yet
NoTable == [h \in {} |-> 0]
FreshTable ==
  [h \in HostSet |->
     [cpu_used |-> 0,
      gpu_name |-> [c \in GpuCols |-> NaN],
      gpu_status |-> [c \in GpuCols |-> ""]]]
NoRefresh ==
  /\ mfile = FreshTable /\ mold = NoTable /\ hpc = "idle" /\ before = {}
  /\ orig = <<>> /\ tpc = "idle"

\* no save is observed: every table file complete, no backup yet
TableFiles == {"hosts", "jobs", "reservations"}
NoSaves ==
  /\ files = [t \in TableFiles |-> [file |-> "complete", old |-> "absent"]]
  /\ saving = [t \in TableFiles |-> "no"]
  /\ failed = [t \in TableFiles |-> FALSE]

\* ------------------------------------------------------------------ Init
\* The table as the dashboard's submissions left it, the supervisor started
\* (QueueJob.__init__ reads the table), no tick run yet.
InitFrom(scenarios) ==
  \E sc \in scenarios : \E n \in {Len(sc.rows)} : \E kinds \in {sc.rows} :
    /\ smtp = sc.smtp
    /\ scp = sc.scp
    /\ disk = [k \in 1..n |-> submit(kinds[k])]
    /\ df = read_csv(disk)
    /\ machines = [h \in HostSet |->
                     [cpu_used |-> 0,
                      gpu_name |-> [c \in GpuCols |-> NaN],
                      gpu_status |-> [c \in GpuCols |-> ""]]]
    /\ cursor = 0
    /\ snap = <<>>
    /\ alive = TRUE
    /\ workers = [k \in 1..n |-> <<0, 0>>]
    /\ startMails = [k \in 1..n |-> 0]
    /\ endMails = [k \in 1..n |-> 0]
    /\ ranAtLoad = {}
    /\ placedNow = {}
    /\ probeFail = {}
    /\ ordPairs = {}
    /\ noFile = 1..n
    /\ deadPid = {} /\ outFail = {} /\ restarted = FALSE
    /\ NoReservations /\ NoSaves /\ pc = "loop" /\ NoRefresh

\* the stock tables: h2 with its two models, users.csv with a default row
StockConfig == gpus = MixedGpus /\ users = Users

Init == InitFrom(Scenarios) /\ StockConfig

\* the hosts a pending row can go to, given the tables
Candidates(d, m, k) ==
  LET gpu == d[k].gpu_requested # <<>>
  IN search_available_machine(m, d[k].n_cpu, gpu,
                              IF gpu THEN d[k].gpu_requested ELSE <<"all">>, n_cpu_reserve)

\* a variant of the debit that leaves the host table as it was
debit_none(d, m, k, h) == m

\* the debit of a placement on the host table: cpu_used and the GPU statuses
debit(d, m, k, h) ==
  LET gpu == d[k].gpu_requested # <<>>
      taken == IF gpu THEN gpu_taken(m, h, d[k].gpu_requested) ELSE {}
  IN [m EXCEPT ![h].cpu_used = @ + d[k].n_cpu,
               ![h].gpu_status = [c \in GpuCols |-> IF c \in taken THEN "running" ELSE @[c]]]

\* the host table when row k holds its request on host h: its CPUs are used and
\* the available GPUs of a requested model are running
holding(d, m, k, h) ==
  [m EXCEPT ![h].cpu_used = @ + d[k].n_cpu,
            ![h].gpu_status =
               [c \in GpuCols |->
                  IF /\ d[k].gpu_requested # <<>>
                     /\ @[c] = "available"
                     /\ m[h].gpu_name[c] \in Range(d[k].gpu_requested)
                  THEN "running" ELSE @[c]]]

\* the pairs of the placement-ordering case, on the tables a tick dispatches:
\* A is the only pending row before the pending row B, both pass the limit
\* check, H is the host A goes to, B could go to H as well, and H no longer
\* passes B's filters once A holds its request there
OrdPairs(d, m) ==
  {t \in (DOMAIN d) \X (DOMAIN d) \X HostSet :
     LET a == t[1]
         b == t[2]
         h == t[3]
     IN /\ a < b /\ d[a].status = "pending" /\ d[b].status = "pending"
        /\ \A k \in 1..(b - 1) : k # a => d[k].status # "pending"
        /\ limit_job(d, a) /\ limit_job(d, b)
        /\ Candidates(d, m, a) # <<>> /\ Candidates(d, m, a)[1] = h
        /\ h \in Range(Candidates(d, m, b))
        /\ h \notin Range(Candidates(d, holding(d, m, a, h), b))}

\* ------------------------------------------------------------ the tick
\* __monitor_now up to the dispatch loop: read_users, read_csv,
\* update_status_machines, update_status_jobs (which saves)
TickBegin ==
  /\ alive /\ cursor = 0
  /\ LET d0 == read_csv(disk)
         d1 == status_in_queue_df(d0)
         m1 == update_status_machines(d1, machines)
     IN /\ machines' = m1
        /\ \E inp \in [RunningRows(d1) -> ProbeInputs] :
             LET probe == [k \in RunningRows(d1) |-> get_status_job(inp[k])]
             IN /\ \A k \in RunningRows(d1) : inp[k].file = "absent" <=> k \in noFile
                /\ df' = update_status_jobs(d1, probe)
                /\ probeFail' = {k \in RunningRows(d1) : probe[k].pid = PidFail}
                /\ deadPid' = {k \in RunningRows(d1) :
                                 inp[k].conn /\ inp[k].file = "running" /\ ~inp[k].alive}
        /\ ranAtLoad' = RunningRows(d0)
        /\ ordPairs' = OrdPairs(df', m1)
  /\ disk' = to_csv(df')
  /\ snap' = [k \in DOMAIN df' |-> df'[k].status]
  /\ cursor' = 1
  /\ placedNow' = {}
  /\ UNCHANGED <<alive, workers, startMails, endMails, smtp, scp, noFile, outFail, restarted>>

\* the loop body for a row that the limit check skips or whose action is a no-op
\* (running, copying, copy_fail, started, "")
DispatchSkip ==
  /\ alive /\ cursor \in DOMAIN snap
  /\ \/ ~limit_job(df, cursor)
     \/ snap[cursor] \in {"running", "copying", "copy_fail", "started", ""}
  /\ IF limit_job_raises(df, cursor)
     THEN \* UnboundLocalError out of limit_job: the exception leaves monitor
          alive' = FALSE /\ cursor' = 0 /\ snap' = <<>>
     ELSE cursor' = cursor + 1 /\ UNCHANGED <<snap, alive>>
  /\ UNCHANGED <<df, disk, machines, workers, startMails, endMails,
                 ranAtLoad, placedNow, probeFail, ordPairs, smtp, scp, noFile, deadPid, outFail, restarted>>

\* start_job: the pid read from labmonitor.status 0.1 s after the detached
\* exec; -1 when the connection fails or the file is not there to read.  The
\* file is there when an earlier launch left it (the execution directory of a
\* row is the same at every placement) or when this launch has written it.
start_job(absent, launched, answered) ==
  IF answered /\ (launched \/ ~absent) THEN 1 ELSE PidFail

\* __pending.  copy_dir and prepare_job swallow their errors, so a failed copy
\* goes on to start_job; the script can run only in a directory that exists.
DispatchPending ==
  /\ alive /\ cursor \in DOMAIN snap
  /\ limit_job(df, cursor) /\ snap[cursor] = "pending"
  /\ LET i == cursor
         ms == Candidates(df, machines, i)
     IN IF ms = <<>>
        THEN /\ cursor' = cursor + 1
             /\ UNCHANGED <<df, disk, machines, snap, alive, startMails, placedNow,
                            noFile, outFail>>
        ELSE LET h == ms[1]
                 d1 == [df EXCEPT ![i].status = "running", ![i].name = h]
             IN IF get_taskset_raises(d1, h)
                THEN \* ValueError out of __get_taskset: the exception leaves monitor
                     /\ df' = d1 /\ alive' = FALSE /\ cursor' = 0 /\ snap' = <<>>
                     /\ UNCHANGED <<disk, machines, startMails, placedNow, noFile, outFail>>
                ELSE LET task == get_taskset(d1, h, df[i].n_cpu)
                         taken == IF df[i].gpu_requested # <<>>
                                  THEN gpu_taken(machines, h, df[i].gpu_requested) ELSE {}
                         d2 == [d1 EXCEPT ![i].taskset = StrCell(task),
                                          ![i].gpu_name =
                                             IF taken # {} THEN machines[h].gpu_name[Max(taken)] ELSE @,
                                          ![i].gpu_index =
                                             IF taken # {} THEN Max(taken) - 1 ELSE @]
                     IN /\ machines' = debit(df, machines, i, h)
                        /\ \E copied \in BOOLEAN, launched \in BOOLEAN, answered \in BOOLEAN :
                           LET ok == df[i].notification_start = "N" /\ send_mail
                               pid == start_job(i \in noFile, launched, answered)
                           IN /\ launched => (copied \/ i \notin noFile)
                              /\ df' = start_notified([d2 EXCEPT ![i].pid = pid], i, ok)
                              /\ startMails' = [startMails EXCEPT ![i] = Count(@, ok)]
                              /\ noFile' = IF launched THEN noFile \ {i} ELSE noFile
                              /\ outFail' = IF copied THEN outFail ELSE outFail \cup {i}
                        /\ disk' = to_csv(df')
                        /\ placedNow' = placedNow \cup {i}
                        /\ cursor' = cursor + 1
                        /\ UNCHANGED <<snap, alive>>
  /\ UNCHANGED <<workers, endMails, ranAtLoad, probeFail, ordPairs, smtp, scp,
                 deadPid, restarted>>

\* threading.Thread(target=subp_copy).start() for row index
start_thread(w, index) ==
  IF w[index][1] + w[index][2] < MaxWorkers THEN [w EXCEPT ![index][1] = @ + 1] ELSE w

\* __copy_finished: a copy-back thread is started
DispatchCopyFinished ==
  /\ alive /\ cursor \in DOMAIN snap
  /\ limit_job(df, cursor) /\ snap[cursor] = "copy_finished"
  /\ workers' = start_thread(workers, cursor)
  /\ cursor' = cursor + 1
  /\ UNCHANGED <<df, disk, machines, snap, alive, startMails, endMails,
                 ranAtLoad, placedNow, probeFail, ordPairs, smtp, scp, noFile, deadPid, outFail, restarted>>

\* __finished(index) on table d: the completion mail when notification_end is N,
\* then fim; the result is saved
finished(d, index, ok) ==
  [d EXCEPT ![index].notification_end = IF ok THEN "Y" ELSE @,
            ![index].fim = datetime_now(@)]

DispatchFinished ==
  /\ alive /\ cursor \in DOMAIN snap
  /\ limit_job(df, cursor) /\ snap[cursor] = "finished"
  /\ LET ok == df[cursor].notification_end = "N" /\ send_mail
     IN /\ df' = finished(df, cursor, ok)
        /\ endMails' = [endMails EXCEPT ![cursor] = Count(@, ok)]
  /\ disk' = to_csv(df')
  /\ cursor' = cursor + 1
  /\ UNCHANGED <<machines, snap, alive, workers, startMails, ranAtLoad, placedNow,
                 probeFail, ordPairs, smtp, scp, noFile, deadPid, outFail, restarted>>

\* __not_finished_correctly(index): with notification_end N the failure mail is
\* sent and the flag set in memory, a copy-back thread is started, the table is
\* read again from the file and the status written; then fim, then save
not_finished_correctly(d, f, index, ok) ==
  IF d[index].notification_end = "N"
  THEN [read_csv(f) EXCEPT ![index].status = "not_finished_correctly",
                           ![index].fim = datetime_now(@)]
  ELSE [d EXCEPT ![index].fim = datetime_now(@)]

DispatchNotFinishedCorrectly ==
  /\ alive /\ cursor \in DOMAIN snap
  /\ limit_job(df, cursor) /\ snap[cursor] = "not_finished_correctly"
  /\ IF df[cursor].notification_end = "N"
     THEN /\ workers' = start_thread(workers, cursor)
          /\ df' = not_finished_correctly(df, disk, cursor, send_mail)
          /\ endMails' = [endMails EXCEPT ![cursor] = Count(@, send_mail)]
     ELSE /\ df' = not_finished_correctly(df, disk, cursor, FALSE)
          /\ UNCHANGED <<workers, endMails>>
  /\ disk' = to_csv(df')
  /\ cursor' = cursor + 1
  /\ UNCHANGED <<machines, snap, alive, startMails, ranAtLoad, placedNow,
                 probeFail, ordPairs, smtp, scp, noFile, deadPid, outFail, restarted>>

\* the loop is over: monitor sleeps feq_time
TickEnd ==
  /\ alive /\ cursor = Len(snap) + 1 /\ cursor > 1
  /\ cursor' = 0
  /\ snap' = <<>>
  /\ ranAtLoad' = {} /\ placedNow' = {} /\ probeFail' = {} /\ ordPairs' = {}
  /\ deadPid' = {} /\ outFail' = {} /\ restarted' = FALSE
  /\ UNCHANGED <<df, disk, machines, alive, workers, startMails, endMails, smtp, scp,
                 noFile>>

\* ------------------------------------------------- the copy-back worker
\* subp_copy, first stage: read the status file, write `copying`, set the row
\* to copying and save.  When the connection fails, pid stays unbound: the
\* thread reads the table again (line 946) and ends on the UnboundLocalError.
WorkerFlip ==
  \E i \in DOMAIN df :
    /\ workers[i][1] > 0
    /\ \/ /\ df' = [df EXCEPT ![i].status = "copying"]
          /\ disk' = to_csv(df')
          /\ workers' = [workers EXCEPT ![i] = <<@[1] - 1, @[2] + 1>>]
       \/ /\ df' = read_csv(disk)
          /\ workers' = [workers EXCEPT ![i] = <<@[1] - 1, @[2]>>]
          /\ UNCHANGED disk
    /\ UNCHANGED <<machines, cursor, snap, alive, startMails, endMails,
                   ranAtLoad, placedNow, probeFail, ordPairs, smtp, scp, noFile, deadPid, outFail, restarted>>

\* subp_copy, lines 921-937: copiado is set after copy_dir returns, and
\* copy_dir returns whether scp copied the tree or not (it catches its
\* exceptions); only the lookup of the origin host in machines.csv, made while
\* the arguments are built, raises into the except that leaves copiado False
copiado(known, copied) == known

\* subp_copy, second stage: the copy back with its outcome (known: the origin
\* host is in machines.csv; copied: known and scp copied the tree), then
\* read_csv, the final status, save, and __finished for a finished row.
WorkerCopy ==
  \E i \in DOMAIN df :
    /\ workers[i][2] > 0
    /\ workers' = [workers EXCEPT ![i] = <<@[1], @[2] - 1>>]
    /\ LET d1 == read_csv(disk)
       IN \E known \in BOOLEAN :
            IF copiado(known, known /\ scp)
            THEN LET ok == d1[i].notification_end = "N" /\ send_mail
                 IN /\ df' = finished([d1 EXCEPT ![i].status = "finished"], i, ok)
                    /\ endMails' = [endMails EXCEPT ![i] = Count(@, ok)]
            ELSE /\ df' = [d1 EXCEPT ![i].status = "copy_fail"]
                 /\ UNCHANGED endMails
    /\ disk' = to_csv(df')
    /\ UNCHANGED <<machines, cursor, snap, alive, startMails, ranAtLoad, placedNow,
                   probeFail, ordPairs, smtp, scp, noFile, deadPid, outFail, restarted>>

\* the supervisor process is stopped and started again (main.py): its threads
\* are gone, QueueJob.__init__ reads the table from the file
Restart ==
  /\ df' = read_csv(disk)
  /\ alive' = TRUE
  /\ cursor' = 0
  /\ snap' = <<>>
  /\ workers' = [k \in DOMAIN workers |-> <<0, 0>>]
  /\ ranAtLoad' = {} /\ placedNow' = {} /\ probeFail' = {} /\ ordPairs' = {}
  /\ deadPid' = {} /\ outFail' = {}
  /\ restarted' = TRUE
  /\ UNCHANGED <<disk, machines, startMails, endMails, smtp, scp, noFile>>

Next ==
  \/ TickBegin /\ UNCHANGED <<rvars, fvars, tvars, hvars, pvars, cvars>>
  \/ DispatchSkip /\ UNCHANGED <<rvars, fvars, tvars, hvars, pvars, cvars>>
  \/ DispatchPending /\ UNCHANGED <<rvars, fvars, tvars, hvars, pvars, cvars>>
  \/ DispatchCopyFinished /\ UNCHANGED <<rvars, fvars, tvars, hvars, pvars, cvars>>
  \/ DispatchFinished /\ UNCHANGED <<rvars, fvars, tvars, hvars, pvars, cvars>>
  \/ DispatchNotFinishedCorrectly /\ UNCHANGED <<rvars, fvars, tvars, hvars, pvars, cvars>>
  \/ TickEnd /\ UNCHANGED <<rvars, fvars, tvars, hvars, pvars, cvars>>
  \/ WorkerFlip /\ UNCHANGED <<rvars, fvars, tvars, hvars, pvars, cvars>>
  \/ WorkerCopy /\ UNCHANGED <<rvars, fvars, tvars, hvars, pvars, cvars>>
  \/ Restart /\ UNCHANGED <<rvars, fvars, tvars, hvars, pvars, cvars>>

Spec == Init /\ [][Next]_vars

\* ============================================ the threads, statement by statement
\* The copy-back workers are threads of the supervisor and share self.df with
\* the tick.  Here the two handlers of the tick that work for a long time
\* between their first write to self.df and their save are taken in two steps
\* each, so that a step of a worker can fall between them.

\* __pending, lines 796-861: the search; the row is marked running in self.df
\* with its host, taskset and GPU; the host table is debited; the directory is
\* made, the tree copied, the launcher script written
PendingMark ==
  /\ alive /\ cursor \in DOMAIN snap /\ pc = "loop"
  /\ limit_job(df, cursor) /\ snap[cursor] = "pending"
  /\ LET i == cursor
         ms == Candidates(df, machines, i)
     IN IF ms = <<>>
        THEN /\ cursor' = cursor + 1
             /\ UNCHANGED <<df, machines, alive, snap, placedNow, outFail, pc>>
        ELSE LET h == ms[1]
                 d1 == [df EXCEPT ![i].status = "running", ![i].name = h]
             IN IF get_taskset_raises(d1, h)
                THEN /\ df' = d1 /\ alive' = FALSE /\ cursor' = 0 /\ snap' = <<>>
                     /\ UNCHANGED <<machines, placedNow, outFail, pc>>
                ELSE LET task == get_taskset(d1, h, df[i].n_cpu)
                         taken == IF df[i].gpu_requested # <<>>
                                  THEN gpu_taken(machines, h, df[i].gpu_requested) ELSE {}
                     IN /\ df' = [d1 EXCEPT ![i].taskset = StrCell(task),
                                            ![i].gpu_name =
                                               IF taken # {} THEN machines[h].gpu_name[Max(taken)] ELSE @,
                                            ![i].gpu_index =
                                               IF taken # {} THEN Max(taken) - 1 ELSE @]
                        /\ machines' = debit(df, machines, i, h)
                        /\ \E copied \in BOOLEAN :
                             outFail' = IF copied THEN outFail ELSE outFail \cup {i}
                        /\ placedNow' = placedNow \cup {i}
                        /\ pc' = "marked"
                        /\ UNCHANGED <<cursor, snap, alive>>
  /\ UNCHANGED <<disk, workers, startMails, endMails, smtp, scp, ranAtLoad, probeFail,
                 ordPairs, noFile, deadPid, restarted>>

\* __pending, lines 863-877: start_job, the pid and the start-mail flag written
\* into self.df as it is by then, save_machines and save
PendingLaunch ==
  /\ alive /\ cursor \in DOMAIN snap /\ pc = "marked"
  /\ LET i == cursor
     IN \E launched \in BOOLEAN, answered \in BOOLEAN :
          LET ok == df[i].notification_start = "N" /\ send_mail
              pid == start_job(i \in noFile, launched, answered)
          IN /\ launched => (i \notin outFail \/ i \notin noFile)
             /\ df' = start_notified([df EXCEPT ![i].pid = pid], i, ok)
             /\ startMails' = [startMails EXCEPT ![i] = Count(@, ok)]
             /\ noFile' = IF launched THEN noFile \ {i} ELSE noFile
  /\ disk' = to_csv(df')
  /\ cursor' = cursor + 1
  /\ pc' = "loop"
  /\ UNCHANGED <<machines, snap, alive, workers, endMails, smtp, scp, ranAtLoad, placedNow,
                 probeFail, ordPairs, deadPid, outFail, restarted>>

\* __not_finished_correctly, lines 1079-1094: with notification_end N, the
\* failure mail, the flag set in self.df when the mail was accepted, and the
\* copy-back thread started.  With the flag Y the handler is lines 1099-1100.
NfcMail ==
  /\ alive /\ cursor \in DOMAIN snap /\ pc = "loop"
  /\ limit_job(df, cursor) /\ snap[cursor] = "not_finished_correctly"
  /\ IF df[cursor].notification_end = "N"
     THEN /\ workers' = start_thread(workers, cursor)
          /\ df' = [df EXCEPT ![cursor].notification_end = IF send_mail THEN "Y" ELSE @]
          /\ endMails' = [endMails EXCEPT ![cursor] = Count(@, send_mail)]
          /\ pc' = "mailed"
          /\ UNCHANGED <<disk, cursor>>
     ELSE /\ df' = not_finished_correctly(df, disk, cursor, FALSE)
          /\ disk' = to_csv(df')
          /\ cursor' = cursor + 1
          /\ UNCHANGED <<workers, endMails, pc>>
  /\ UNCHANGED <<machines, snap, alive, startMails, smtp, scp, ranAtLoad, placedNow,
                 probeFail, ordPairs, noFile, deadPid, outFail, restarted>>

\* __not_finished_correctly, lines 1095-1100: the table is read again from the
\* file, the status written, fim set, the table saved
NfcReload ==
  /\ alive /\ cursor \in DOMAIN snap /\ pc = "mailed"
  /\ df' = [read_csv(disk) EXCEPT ![cursor].status = "not_finished_correctly",
                                  ![cursor].fim = datetime_now(@)]
  /\ disk' = to_csv(df')
  /\ cursor' = cursor + 1
  /\ pc' = "loop"
  /\ UNCHANGED <<machines, snap, alive, workers, startMails, endMails, smtp, scp, ranAtLoad,
                 placedNow, probeFail, ordPairs, noFile, deadPid, outFail, restarted>>

\* the supervisor is stopped and started again while a handler is under way
RestartThreads == Restart /\ pc' = "loop"

\* the table of the runs in which the threads are followed statement by
\* statement: two jobs that ask for the same GPU, so that the second is placed
\* while the first is copied back
ThreadScenarios ==
  { [rows |-> <<Job("u2", 2, <<"B">>), Job("u2", 2, <<"B">>)>>, smtp |-> TRUE, scp |-> TRUE] }

InitThreads == InitFrom(ThreadScenarios) /\ StockConfig

NextThreads ==
  \/ pc = "loop" /\ TickBegin /\ UNCHANGED <<rvars, fvars, tvars, hvars, pvars, cvars>>
  \/ pc = "loop" /\ DispatchSkip /\ UNCHANGED <<rvars, fvars, tvars, hvars, pvars, cvars>>
  \/ PendingMark /\ UNCHANGED <<rvars, fvars, hvars, pvars, cvars>>
  \/ PendingLaunch /\ UNCHANGED <<rvars, fvars, hvars, pvars, cvars>>
  \/ pc = "loop" /\ DispatchCopyFinished /\ UNCHANGED <<rvars, fvars, tvars, hvars, pvars, cvars>>
  \/ pc = "loop" /\ DispatchFinished /\ UNCHANGED <<rvars, fvars, tvars, hvars, pvars, cvars>>
  \/ NfcMail /\ UNCHANGED <<rvars, fvars, hvars, pvars, cvars>>
  \/ NfcReload /\ UNCHANGED <<rvars, fvars, hvars, pvars, cvars>>
  \/ pc = "loop" /\ TickEnd /\ UNCHANGED <<rvars, fvars, tvars, hvars, pvars, cvars>>
  \/ WorkerFlip /\ UNCHANGED <<rvars, fvars, tvars, hvars, pvars, cvars>>
  \/ WorkerCopy /\ UNCHANGED <<rvars, fvars, tvars, hvars, pvars, cvars>>
  \/ RestartThreads /\ UNCHANGED <<rvars, fvars, hvars, pvars, cvars>>

SpecThreads == InitThreads /\ [][NextThreads]_vars

\* ===================================================== reservation manager
\* the job scheduler is not running: an empty jobs table
NoJobs ==
  /\ df = <<>> /\ disk = <<>> /\ cursor = 0 /\ snap = <<>> /\ alive = TRUE
  /\ machines = [h \in HostSet |->
                   [cpu_used |-> 0,
                    gpu_name |-> [c \in GpuCols |-> NaN],
                    gpu_status |-> [c \in GpuCols |-> ""]]]
  /\ workers = <<>> /\ startMails = <<>> /\ endMails = <<>> /\ smtp = TRUE /\ scp = TRUE
  /\ ranAtLoad = {} /\ placedNow = {} /\ probeFail = {} /\ ordPairs = {}
  /\ noFile = {} /\ deadPid = {} /\ outFail = {} /\ restarted = FALSE
  /\ StockConfig

\* the RangeIndex of a frame of n rows (read_excel, concat with ignore_index)
ignore_index(n) == [k \in 1..n |-> k - 1]

\* Queue.insert: the new entry (no status yet: the cell is NaN until update_status)
insert(d, inicio, fim, gpu_name) ==
  Append(d, [inicio |-> inicio, fim |-> fim, gpu_name |-> gpu_name, status |-> NaN,
             notification_last_day |-> "N", notification_fist_day |-> "N"])

\* a variant of Queue.update_status that ends a reservation on its last day
update_status_strict(d, now) ==
  [k \in DOMAIN d |->
     [d[k] EXCEPT !.status = IF d[k].inicio <= now /\ d[k].fim > now THEN "Executando"
                             ELSE IF d[k].inicio > now THEN "Em espera"
                             ELSE "Finalizado"]]

\* Queue.update_status, by the date
update_status(d, now) ==
  [k \in DOMAIN d |->
     [d[k] EXCEPT !.status = IF d[k].inicio <= now /\ d[k].fim >= now THEN "Executando"
                             ELSE IF d[k].inicio > now THEN "Em espera"
                             ELSE "Finalizado"]]

\* (self.df == e).all(axis=1) for one row of self.df: every cell equal to the
\* cell of e; a NaN cell is equal to nothing, itself included
SameRow(r, e) == r = e /\ r.gpu_name # NaN

RECURSIVE flag_rows(_, _, _, _, _)
\* the loop `for (_, e), r in zip(send.iterrows(), r_email)`: for every e whose
\* mail was accepted, the rows of self.df equal to e get the flag Y.  rows is
\* the frame the loop iterates (sliced before any mail was sent), order the
\* labels still to visit.
flag_rows(d, rows, order, ok, flag) ==
  IF order = <<>> THEN d
  ELSE LET j == Head(order)
           d1 == IF ok[j]
                 THEN [k \in DOMAIN d |->
                         IF SameRow(d[k], rows[j])
                         THEN IF flag = "last" THEN [d[k] EXCEPT !.notification_last_day = "Y"]
                              ELSE [d[k] EXCEPT !.notification_fist_day = "Y"]
                         ELSE d[k]]
                 ELSE d
       IN flag_rows(d1, rows, Tail(order), ok, flag)

\* the labels of S in table order
InOrder(d, S) == SelectSeq([k \in DOMAIN d |-> k], LAMBDA k : k \in S)

\* the table at the first start: empty, day 0
InitResv ==
  /\ NoReservations
  /\ NoJobs /\ NoSaves /\ pc = "loop" /\ NoRefresh

\* Queue.insert on a table of fewer than n rows, which saves
InsertUpTo(n) ==
  /\ Len(qdf) < n
  /\ \E inicio \in today..MaxDay : \E fim \in today..MaxDay : \E g \in {"Null", NaN} :
       qdf' = insert(qdf, inicio, fim, g)
  /\ fistMails' = Append(fistMails, 0)
  /\ lastMails' = Append(lastMails, 0)
  /\ fistTries' = Append(fistTries, 0)
  /\ lastTries' = Append(lastTries, 0)
  /\ labels' = ignore_index(Len(qdf) + 1)
  /\ UNCHANGED today

\* the dashboard books a reservation
Insert == InsertUpTo(MaxResv)

\* Queue.__monitor_now: read_excel, update_status, the two frames of the day,
\* the last-day mails and flags, the first-day mails and flags, save
MonitorNow ==
  /\ qdf # <<>>
  /\ LET d1 == update_status(qdf, today)
         df_last == {k \in DOMAIN d1 : d1[k].fim = today}
         df_fist == {k \in DOMAIN d1 : d1[k].inicio = today}
         send_last_day == {k \in df_last : d1[k].notification_last_day = "N"}
         send_fist_day == {k \in df_fist : d1[k].notification_fist_day = "N"}
     IN \E okL \in [send_last_day -> BOOLEAN] : \E okF \in [send_fist_day -> BOOLEAN] :
          LET d2 == flag_rows(d1, d1, InOrder(d1, send_last_day), okL, "last")
              d3 == flag_rows(d2, d1, InOrder(d1, send_fist_day), okF, "fist")
          IN /\ qdf' = d3
             /\ lastMails' = [k \in DOMAIN lastMails |->
                                Count(lastMails[k], k \in send_last_day /\ okL[k])]
             /\ fistMails' = [k \in DOMAIN fistMails |->
                                Count(fistMails[k], k \in send_fist_day /\ okF[k])]
             /\ lastTries' = [k \in DOMAIN lastTries |->
                                CountTry(lastTries[k], k \in send_last_day)]
             /\ fistTries' = [k \in DOMAIN fistTries |->
                                CountTry(fistTries[k], k \in send_fist_day)]
  /\ labels' = ignore_index(Len(qdf))
  /\ UNCHANGED today

\* midnight
NextDay ==
  /\ today < MaxDay
  /\ today' = today + 1
  /\ UNCHANGED <<qdf, fistMails, lastMails, fistTries, lastTries, labels>>

NextResv ==
  \/ Insert /\ UNCHANGED <<jvars, fvars, tvars, hvars, pvars, cvars>>
  \/ MonitorNow /\ UNCHANGED <<jvars, fvars, tvars, hvars, pvars, cvars>>
  \/ NextDay /\ UNCHANGED <<jvars, fvars, tvars, hvars, pvars, cvars>>

SpecResv == InitResv /\ [][NextResv]_vars

\* =================================================== insert and remove
\* The dashboard process keeps one Queue object: an insert relabels the rows
\* (ignore_index), a remove leaves the labels of the rows it keeps.

\* a variant of DataFrame.drop that drops the row before the label
drop_before(l, index) == SelectSeq([k \in DOMAIN l |-> k], LAMBDA k : l[k] # index - 1)

\* DataFrame.drop(index=index): the positions of the rows kept
drop(l, index) == SelectSeq([k \in DOMAIN l |-> k], LAMBDA k : l[k] # index)

\* Queue.remove raises when iloc[index] is out of bounds (IndexError) or when
\* no row has the label index (KeyError of drop)
remove_raises(l, index) == index >= Len(l) \/ \A k \in DOMAIN l : l[k] # index

\* the cells of s at the positions keep
Kept(s, keep) == [j \in DOMAIN keep |-> s[keep[j]]]

\* Queue.insert, remembering the table it was called on
TripInsert ==
  /\ InsertUpTo(MaxTrip)
  /\ orig' = qdf
  /\ tpc' = "inserted"

\* Queue.remove(index); index-of(r) of the row the last insert added is the
\* last label
TripRemove ==
  \E index \in 0..(MaxTrip - 1) :
    IF remove_raises(labels, index)
    THEN UNCHANGED <<rvars, pvars, cvars>>
    ELSE LET keep == drop(labels, index)
         IN /\ qdf' = Kept(qdf, keep)
            /\ labels' = Kept(labels, keep)
            /\ fistMails' = Kept(fistMails, keep)
            /\ lastMails' = Kept(lastMails, keep)
            /\ fistTries' = Kept(fistTries, keep)
            /\ lastTries' = Kept(lastTries, keep)
            /\ tpc' = IF tpc = "inserted" /\ index = labels[Len(labels)]
                      THEN "removed" ELSE "idle"
            /\ UNCHANGED <<today, orig>>

\* the page is run again: Queue.__init__ reads queue.xlsx
TripReload ==
  /\ labels # ignore_index(Len(qdf))
  /\ labels' = ignore_index(Len(qdf))
  /\ UNCHANGED <<qdf, today, fistMails, lastMails, fistTries, lastTries, pvars, cvars>>

InitTrip == InitResv

NextTrip ==
  \/ TripInsert /\ UNCHANGED <<jvars, fvars, tvars, hvars, cvars>>
  \/ TripRemove /\ UNCHANGED <<jvars, fvars, tvars, hvars, cvars>>
  \/ TripReload /\ UNCHANGED <<jvars, fvars, tvars, hvars, cvars>>

SpecTrip == InitTrip /\ [][NextTrip]_vars

\* ============================================================ persistence
\* os.rename(path, backup_path) when the file exists
rename_to_old(f) == IF f.file # "absent" THEN [file |-> "absent", old |-> f.file] ELSE f

\* the writer opens the path for writing: the file exists and is incomplete
open_for_write(f) == [f EXCEPT !.file = "partial"]

\* the writer has written everything and closed the file
close_written(f) == [f EXCEPT !.file = "complete"]

\* QueueJob.save: rename to _old, then to_csv; to_csv raises when it opens the
\* path (no file is left) or while it writes (an incomplete file is left), the
\* except prints and save returns
SaveJobs ==
  \/ /\ saving["jobs"] = "no" /\ files' = [files EXCEPT !["jobs"] = rename_to_old(@)]
     /\ saving' = [saving EXCEPT !["jobs"] = "renamed"]
     /\ failed' = [failed EXCEPT !["jobs"] = FALSE]
  \/ /\ saving["jobs"] = "renamed" /\ files' = [files EXCEPT !["jobs"] = open_for_write(@)]
     /\ saving' = [saving EXCEPT !["jobs"] = "writing"]
     /\ UNCHANGED failed
  \/ /\ saving["jobs"] = "writing" /\ files' = [files EXCEPT !["jobs"] = close_written(@)]
     /\ saving' = [saving EXCEPT !["jobs"] = "no"]
     /\ UNCHANGED failed
  \/ /\ saving["jobs"] \in {"renamed", "writing"}
     /\ saving' = [saving EXCEPT !["jobs"] = "no"]
     /\ failed' = [failed EXCEPT !["jobs"] = TRUE]
     /\ UNCHANGED files

\* Data.save_machines: rename to _old, then to_csv; when that raises, the
\* except does both again: the rename when the path exists, then to_csv, and
\* prints when the second to_csv raises too
SaveMachines ==
  \/ /\ saving["hosts"] = "no" /\ files' = [files EXCEPT !["hosts"] = rename_to_old(@)]
     /\ saving' = [saving EXCEPT !["hosts"] = "renamed"]
     /\ failed' = [failed EXCEPT !["hosts"] = FALSE]
  \/ /\ saving["hosts"] = "renamed" /\ files' = [files EXCEPT !["hosts"] = open_for_write(@)]
     /\ saving' = [saving EXCEPT !["hosts"] = "writing"]
     /\ UNCHANGED failed
  \/ /\ saving["hosts"] = "writing" /\ files' = [files EXCEPT !["hosts"] = close_written(@)]
     /\ saving' = [saving EXCEPT !["hosts"] = "no"]
     /\ UNCHANGED failed
  \/ /\ saving["hosts"] \in {"renamed", "writing"}
     /\ saving' = [saving EXCEPT !["hosts"] = "except"]
     /\ failed' = [failed EXCEPT !["hosts"] = TRUE]
     /\ UNCHANGED files
  \/ /\ saving["hosts"] = "except" /\ files' = [files EXCEPT !["hosts"] = rename_to_old(@)]
     /\ saving' = [saving EXCEPT !["hosts"] = "renamed again"]
     /\ UNCHANGED failed
  \/ /\ saving["hosts"] = "renamed again"
     /\ files' = [files EXCEPT !["hosts"] = open_for_write(@)]
     /\ saving' = [saving EXCEPT !["hosts"] = "writing again"]
     /\ UNCHANGED failed
  \/ /\ saving["hosts"] = "writing again"
     /\ files' = [files EXCEPT !["hosts"] = close_written(@)]
     /\ saving' = [saving EXCEPT !["hosts"] = "no"]
     /\ failed' = [failed EXCEPT !["hosts"] = FALSE]
  \/ /\ saving["hosts"] \in {"renamed again", "writing again"}
     /\ saving' = [saving EXCEPT !["hosts"] = "no"]
     /\ UNCHANGED <<files, failed>>

\* Queue.save: to_excel on the path itself
SaveReservations ==
  /\ \/ saving["reservations"] = "no"
        /\ files' = [files EXCEPT !["reservations"] = open_for_write(@)]
        /\ saving' = [saving EXCEPT !["reservations"] = "writing"]
     \/ saving["reservations"] = "writing"
        /\ files' = [files EXCEPT !["reservations"] = close_written(@)]
        /\ saving' = [saving EXCEPT !["reservations"] = "no"]
  /\ UNCHANGED failed

\* QueueJob.reset: an empty table is written to queue_job.csv
reset(f) == [f EXCEPT !.file = "empty"]

\* QueueJob.read_csv, by __init__ at a start and by every tick, when
\* queue_job.csv does not exist: the else branch calls reset, the _old file is
\* not looked at.  (A file that exists and is read leaves the files as they are.)
LoadJobs ==
  /\ saving["jobs"] = "no" /\ files["jobs"].file = "absent"
  /\ files' = [files EXCEPT !["jobs"] = reset(@)]
  /\ UNCHANGED <<saving, failed>>

\* the processes are killed: the saves in progress are gone, the files stay
Crash ==
  /\ \E t \in TableFiles : saving[t] # "no"
  /\ saving' = [t \in TableFiles |-> "no"]
  /\ UNCHANGED <<files, failed>>

InitSave == NoSaves /\ NoJobs /\ NoReservations /\ pc = "loop" /\ NoRefresh

NextSave ==
  \/ SaveJobs /\ UNCHANGED <<jvars, rvars, tvars, hvars, pvars, cvars>>
  \/ LoadJobs /\ UNCHANGED <<jvars, rvars, tvars, hvars, pvars, cvars>>
  \/ SaveMachines /\ UNCHANGED <<jvars, rvars, tvars, hvars, pvars, cvars>>
  \/ SaveReservations /\ UNCHANGED <<jvars, rvars, tvars, hvars, pvars, cvars>>
  \/ Crash /\ UNCHANGED <<jvars, rvars, tvars, hvars, pvars, cvars>>

SpecSave == InitSave /\ [][NextSave]_vars

\* ================================================================ claims
Terminal == {"finished", "not_finished_correctly", "copy_fail"}
OnHostStates == {"running", "copy_finished", "copying"}

\* the dispatch loop of the current tick is over
EndOfTick == alive /\ cursor > 1 /\ cursor = Len(snap) + 1

\* the sum of n_cpu over the rows of S that are on host h
CpuOf(S, h) == SumOver({k \in S : df[k].name = h}, [k \in DOMAIN df |-> df[k].n_cpu])

Holds(k, h, c) ==
  /\ df[k].name = h /\ df[k].gpu_index = c - 1
  /\ df[k].gpu_name # NaN /\ df[k].gpu_name = Col(h, c)

C3_MaskDisjoint ==
  \A i \in DOMAIN df :
    (df[i].status \in OnHostStates /\ df[i].name # NaN) =>
      /\ Cardinality(df[i].taskset.cores) = df[i].n_cpu
      /\ \A j \in DOMAIN df :
           (j # i /\ df[j].status \in OnHostStates /\ df[j].name = df[i].name) =>
             df[i].taskset.cores \cap df[j].taskset.cores = {}

C5_EndMailOnce == \A i \in DOMAIN df : endMails[i] <= 1

\* C8 (as stated): at the end of the tick, of two pending rows contending for a
\* host, the earlier one is placed and the later one is pending.
C8_LaterStaysPending ==
  EndOfTick =>
    \A t \in ordPairs :
      /\ t[1] \in placedNow /\ df[t[1]].status = "running" /\ df[t[1]].name = t[3]
      /\ df[t[2]].status = "pending"

\* C8 (amended): at the end of the tick, of two pending rows contending for a
\* host, the earlier one is placed on that host and the later one is not: it is
\* pending, or placed on another host.
C8_EarlierTakesHost ==
  EndOfTick =>
    \A t \in ordPairs :
      /\ t[1] \in placedNow /\ df[t[1]].status = "running" /\ df[t[1]].name = t[3]
      /\ IF t[2] \in placedNow THEN df[t[2]].name # t[3] ELSE df[t[2]].status = "pending"

\* a tick ends with two rows that contended for a GPU host: the later is pending
C8_Witness ==
  /\ EndOfTick
  /\ \E t \in ordPairs : df[t[2]].status = "pending" /\ df[t[1]].name = t[3]

\* C9 (as stated): a row in state finished, not_finished_correctly or copy_fail
\* keeps its state in every step.
C9_TerminalAbsorbing ==
  [][\A i \in DOMAIN df : df[i].status \in Terminal => df'[i].status = df[i].status]_vars

\* C10 (as stated): a tick whose probe of a running row fails leaves the row
\* in state running with its pid, host, taskset and GPU index unchanged.
C10_ProbeFailureKeepsRow ==
  [][(cursor = 0 /\ cursor' = 1) =>
       \A i \in probeFail' :
         LET old == read_csv(disk)[i]
         IN /\ df'[i].status = "running"
            /\ df'[i].pid = old.pid
            /\ df'[i].name = old.name
            /\ df'[i].taskset.cores = old.taskset.cores
            /\ df'[i].gpu_name = old.gpu_name]_vars

\* C6 (as stated): for every reservation the first-day e-mail is accepted at
\* most once and the last-day e-mail at most once.
C6_ReservationMailOnce ==
  \A k \in DOMAIN qdf : fistMails[k] <= 1 /\ lastMails[k] <= 1

\* C7 (as stated): at every point where a crash can happen, every table has a
\* complete snapshot in its file or in its _old sibling.
C7_CompleteSnapshot ==
  \A t \in TableFiles : files[t].file = "complete" \/ files[t].old = "complete"

\* the step that begins a tick: the table is read, the hosts refreshed, the
\* running rows probed
BeginsTick == cursor = 0 /\ cursor' = 1

\* the row as the tick finds it in queue_job.csv
Persisted(i) == read_csv(disk)[i]

\* C11 (as stated): a row placed with no pid and no status file in its
\* execution directory is not_finished_correctly after the next tick has
\* probed it.
C11_LaunchFailureDetected ==
  [][BeginsTick =>
       \A i \in DOMAIN df :
         (Persisted(i).status = "running" /\ Persisted(i).pid = PidFail /\ i \in noFile) =>
           df'[i].status = "not_finished_correctly"]_vars

\* C12 (as stated): the placement whose copy to the execution host fails
\* leaves the row pending and sends no start e-mail.
C12_OutboundFailureStaysPending ==
  [][\A i \in DOMAIN df :
       (i \in outFail' /\ i \notin outFail) =>
         df'[i].status = "pending" /\ startMails'[i] = startMails[i]]_vars

\* C13 (as stated): a row is finished only when its copy back to the origin
\* host succeeded; when the copy failed it is copy_fail.
C13_FinishedOnlyIfCopied ==
  \A i \in DOMAIN df : df[i].status = "finished" => scp

RowKept(j) ==
  /\ to_csv(df')[j].status = to_csv(df)[j].status /\ df'[j].pid = df[j].pid
  /\ df'[j].name = df[j].name /\ df'[j].taskset.cores = df[j].taskset.cores
  /\ df'[j].gpu_name = df[j].gpu_name /\ df'[j].gpu_index = df[j].gpu_index
  /\ df'[j].notification_start = df[j].notification_start
  /\ df'[j].notification_end = df[j].notification_end

\* C15 (as stated): a step of a copy-back worker changes no row but the one
\* it copies, whatever the tick thread has written into the table by then.
C15_WorkerKeepsOtherRows ==
  [][(WorkerFlip \/ WorkerCopy) =>
       \A j \in DOMAIN df : workers'[j] = workers[j] => RowKept(j)]_vars

\* ================================================== the host-table refresh
\* update_status_machines with hosts that do not answer, on an empty jobs
\* table.  A host answers "ok" (connection and nvidia-smi), "nogpu" (connection
\* made, the GPU probe raised) or "down" (the connection raised).
HostAnswers == {"down", "nogpu", "ok"}

\* update_gpu: a host that is down returns (name, None) and is left out of
\* results; a host whose probe raised has gpu_info [] and gets GPU_0 "Null";
\* the inner merge on "name" keeps the hosts that have a row in data_gpu
update_gpu_answers(m, ans) ==
  [h \in {g \in DOMAIN m : ans[g] # "down"} |->
     [m[h] EXCEPT
        !.gpu_name =
          [c \in GpuCols |->
             IF ans[h] = "ok" /\ HostCfg[h].gpu_info # <<>> THEN Col(h, c)
             ELSE IF c = 1 THEN "Null" ELSE NaN],
        !.gpu_status =
          [c \in GpuCols |->
             IF (ans[h] = "ok" /\ c \in DOMAIN HostCfg[h].gpu_info) \/ c = 1
             THEN m[h].gpu_status[c] ELSE NaN]]]

\* read_machines
HostsRead ==
  /\ alive /\ hpc = "idle"
  /\ machines' = mfile
  /\ before' = DOMAIN mfile
  /\ hpc' = "read"
  /\ UNCHANGED <<mfile, mold>>

\* the loop over results reads `sts` before any assignment when the first host
\* of results has no GPU to list and the table has no GPU_0_status column yet
sts_unbound(m, ans, first) ==
  /\ ans[first] = "nogpu" \/ HostCfg[first].gpu_info = <<>>
  /\ \A g \in DOMAIN m : m[g].gpu_name[1] = NaN

\* update_gpu and its save_machines; with no host in results the merge raises
\* KeyError, with `sts` unbound the loop raises UnboundLocalError; __monitor_now
\* catches both: the refresh ends, nothing is saved.  `first` is the host whose
\* future completes first.
HostsUpdateGpu ==
  /\ hpc = "read"
  /\ \E ans \in [DOMAIN machines -> HostAnswers] :
       LET up == {h \in DOMAIN machines : ans[h] # "down"}
       IN IF up = {}
          THEN hpc' = "idle" /\ UNCHANGED <<machines, mfile, mold, before>>
          ELSE \E first \in up :
                 IF sts_unbound(machines, ans, first)
                 THEN hpc' = "idle" /\ UNCHANGED <<machines, mfile, mold, before>>
                 ELSE /\ machines' = update_gpu_answers(machines, ans)
                      /\ mold' = mfile
                      /\ mfile' = machines'
                      /\ hpc' = "merged"
                      /\ UNCHANGED before

\* __allowed_gpu, __update_cpu_used, __status_in_queue, save_machines
HostsAllowed ==
  /\ hpc = "merged"
  /\ machines' = status_in_queue(df, update_cpu_used(df, allowed_gpu(machines)))
  /\ mold' = mfile
  /\ mfile' = machines'
  /\ hpc' = "idle"
  /\ UNCHANGED before

\* the operator edits the catalog file: the hosts are entered again
OperatorEdit ==
  /\ hpc = "idle" /\ DOMAIN mfile # HostSet
  /\ mfile' = [h \in HostSet |-> IF h \in DOMAIN mfile THEN mfile[h] ELSE FreshTable[h]]
  /\ UNCHANGED <<machines, mold, hpc, before>>

\* the supervisor is stopped inside the refresh and started again: main reads
\* machines_job.csv
HostsRestart ==
  /\ hpc # "idle"
  /\ machines' = mfile
  /\ hpc' = "idle"
  /\ before' = {}
  /\ UNCHANGED <<mfile, mold>>

jrest == <<df, disk, cursor, snap, alive, workers, startMails, endMails,
           smtp, scp, ranAtLoad, placedNow, probeFail, ordPairs, noFile, deadPid,
           outFail, restarted>>

InitHosts == NoJobs /\ NoReservations /\ NoSaves /\ pc = "loop" /\ NoRefresh

NextHosts ==
  \/ HostsRead /\ UNCHANGED <<jrest, rvars, fvars, tvars, pvars, cvars>>
  \/ HostsUpdateGpu /\ UNCHANGED <<jrest, rvars, fvars, tvars, pvars, cvars>>
  \/ HostsAllowed /\ UNCHANGED <<jrest, rvars, fvars, tvars, pvars, cvars>>
  \/ OperatorEdit /\ UNCHANGED <<jrest, rvars, fvars, tvars, pvars, cvars>>
  \/ HostsRestart /\ UNCHANGED <<jrest, rvars, fvars, tvars, pvars, cvars>>

SpecHosts == InitHosts /\ [][NextHosts]_vars

\* C18: after the refresh of a tick every host of the catalog file read by the
\* tick is in the host table in memory and in the saved catalog file.
C18_HostsKept ==
  hpc = "idle" => (before \subseteq DOMAIN machines /\ before \subseteq DOMAIN mfile)

\* C19 (as stated): after the refresh at time now every reservation is running
\* iff start <= now <= end, waiting iff now < start, finished iff now > end.
C19_StatusByInterval ==
  [][MonitorNow =>
       \A k \in DOMAIN qdf' :
         /\ qdf'[k].status = "Executando" <=> (qdf'[k].inicio <= today /\ today <= qdf'[k].fim)
         /\ qdf'[k].status = "Em espera" <=> today < qdf'[k].inicio
         /\ qdf'[k].status = "Finalizado" <=> today > qdf'[k].fim]_vars

\* C19 (amended): after the refresh at time now every reservation is running
\* iff start <= now <= end, waiting iff now < start, and finished iff now > end
\* and now >= start.
C19_StatusByStartFirst ==
  [][MonitorNow =>
       \A k \in DOMAIN qdf' :
         /\ qdf'[k].status = "Executando" <=> (qdf'[k].inicio <= today /\ today <= qdf'[k].fim)
         /\ qdf'[k].status = "Em espera" <=> today < qdf'[k].inicio
         /\ qdf'[k].status = "Finalizado" <=>
              (today > qdf'[k].fim /\ today >= qdf'[k].inicio)]_vars

\* the refresh has run on a day after the end and before the start of a
\* reservation, and on the last day of another
C19_Witness ==
  /\ \E k \in DOMAIN qdf :
       qdf[k].fim < today /\ today < qdf[k].inicio /\ qdf[k].status = "Em espera"
  /\ \E k \in DOMAIN qdf :
       qdf[k].inicio < today /\ today = qdf[k].fim /\ qdf[k].status = "Executando"

\* a flag that is Y stays Y over the step
StaysY(old, new) == old = "Y" => new = "Y"

\* C20: over every step that is not a restart of the supervisor, a notification
\* flag that is Y (notification_start, notification_end of a job row in memory
\* and in queue_job.csv, notification_fist_day, notification_last_day of a
\* reservation row) is Y after the step.
C20_FlagsMonotone ==
  [][~restarted' =>
       /\ \A i \in DOMAIN df :
            /\ StaysY(df[i].notification_start, df'[i].notification_start)
            /\ StaysY(df[i].notification_end, df'[i].notification_end)
            /\ StaysY(disk[i].notification_start, disk'[i].notification_start)
            /\ StaysY(disk[i].notification_end, disk'[i].notification_end)
       /\ \A k \in DOMAIN qdf :
            /\ StaysY(qdf[k].notification_fist_day, qdf'[k].notification_fist_day)
            /\ StaysY(qdf[k].notification_last_day, qdf'[k].notification_last_day)]_vars

\* the users.csv row that applies to user u: its own, else the default row
UserRow(u) ==
  LET own == {k \in DOMAIN users.username : users.username[k] = u}
      sel == IF own # {} THEN own ELSE {k \in DOMAIN users.username : users.username[k] = "default"}
  IN CHOOSE k \in sel : \A j \in sel : k <= j
JobCap(u) == users.simultaneous_jobs_limit[UserRow(u)]
GpuCap(u) == users.gpu_limit[UserRow(u)]

\* the rows of user u in one of the states S, and those among them that hold a GPU
RowsOf(u, S) == {k \in DOMAIN df : df[k].username = u /\ df[k].status \in S}
GpuRowsOf(u, S) == {k \in RowsOf(u, S) : df[k].gpu_name # NaN}

\* the step places row i
Places(i) == df[i].status = "pending" /\ df'[i].status = "running"

\* C16 (as stated): a pending row of user U is not placed while U has job-cap
\* or more rows in state running, copy_finished or copying.
C16_NonTerminalWithinCap ==
  [][\A i \in DOMAIN df :
       Places(i) => Cardinality(RowsOf(df[i].username, OnHostStates)) < JobCap(df[i].username)]_vars

\* C16 (amended): no user has more rows in state running than the job-cap, and
\* at the end of a tick a row that was and still is pending is blocked: its
\* user has job-cap rows running, or more GPU rows running than the GPU-cap
\* while the row asks for a GPU, or no host passes its filters.
C16_RunningWithinCap ==
  /\ \A i \in DOMAIN df :
       Cardinality(RowsOf(df[i].username, {"running"})) <= JobCap(df[i].username)
  /\ EndOfTick =>
       \A i \in DOMAIN df :
         (snap[i] = "pending" /\ df[i].status = "pending") =>
           \/ Cardinality(RowsOf(df[i].username, {"running"})) >= JobCap(df[i].username)
           \/ /\ df[i].gpu_requested # <<>>
              /\ Cardinality(GpuRowsOf(df[i].username, {"running"})) > GpuCap(df[i].username)
           \/ Candidates(df, machines, i) = <<>>

\* a tick that found two pending rows of a user with job-cap 1 ends with one of
\* them placed and the other pending although a host passes its filters
C16_Witness ==
  /\ EndOfTick /\ \A k \in DOMAIN snap : snap[k] = "pending"
  /\ \E i \in placedNow : \E j \in DOMAIN df :
       /\ df[j].username = df[i].username /\ JobCap(df[i].username) = 1
       /\ df[i].status = "running" /\ df[j].status = "pending"
       /\ Candidates(df, machines, j) # <<>>

\* ---------------------------------------------------- queues of GPU jobs
\* the same supervisor on a queue of two jobs of u1 (gpu_limit 0), the first
\* asking for GPU B of host h2, and on a queue of two jobs of u2, one asking
\* for GPU A (which the allow-list of h2 leaves blocked) and one for GPU B, or
\* one asking for GPU B and 7 CPUs and one for 5 CPUs and no GPU, or two
\* GPU-less jobs that fill h1 together
GpuScenarios ==
  { [rows |-> <<Job("u1", 2, <<"B">>), Job("u1", 1, <<>>)>>, smtp |-> TRUE, scp |-> TRUE],
    [rows |-> <<Job("u2", 2, <<"A">>), Job("u2", 2, <<"B">>)>>, smtp |-> TRUE, scp |-> TRUE],
    [rows |-> <<Job("u2", 7, <<"B">>), Job("u2", 5, <<>>)>>, smtp |-> TRUE, scp |-> TRUE],
    [rows |-> <<Job("u2", 2, <<>>), Job("u2", 2, <<>>)>>, smtp |-> TRUE, scp |-> TRUE] }
InitGpu == InitFrom(GpuScenarios) /\ StockConfig
SpecGpu == InitGpu /\ [][Next]_vars

\* C17: a pending row with a GPU request is placed only while its user has
\* fewer than gpu-cap GPU rows running, and no user has more than gpu-cap GPU
\* rows in state running.
C17_GpuRunningWithinCap ==
  \A i \in DOMAIN df :
    Cardinality(GpuRowsOf(df[i].username, {"running"})) <= GpuCap(df[i].username)

\* C21: no condition that arises inside a tick leaves QueueJob.monitor: the
\* control loop of the job scheduler is running in every state.
C21_LoopNeverEnds == alive

\* C22: in a reservation tick a flag of a row goes from N to Y only when the
\* send of that row's mail returned success in this tick; a row whose send
\* failed keeps the flag N, so the next tick of the day calls __send_mail for
\* it again.
C22_FlagOnlyOnSuccess ==
  [][MonitorNow =>
       \A k \in DOMAIN qdf :
         /\ (/\ qdf[k].notification_fist_day = "N"
             /\ qdf'[k].notification_fist_day = "Y"
             /\ fistMails[k] < MaxMail) => fistMails'[k] = fistMails[k] + 1
         /\ (/\ qdf[k].notification_last_day = "N"
             /\ qdf'[k].notification_last_day = "Y"
             /\ lastMails[k] < MaxMail) => lastMails'[k] = lastMails[k] + 1]_vars

\* C23: from a write of queue_job.csv or machines_job.csv that raised until
\* the next save starts, the _old sibling of the table holds a complete
\* snapshot.
C23_BackupSurvivesFailure ==
  \A t \in {"jobs", "hosts"} : failed[t] => files[t].old = "complete"

\* C24: after insert(r) followed by remove(index-of(r)) the table holds the
\* rows it held before the insert, in the same order.
C24_InsertRemove == tpc = "removed" => qdf = orig

\* the round trip has been made on a table of one row that starts on day 1
C24_Witness == tpc = "removed" /\ Len(qdf) = 1 /\ qdf[1].inicio = 1 /\ labels = <<0>>

\* C25: a pending row with a GPU request is placed on a host only if one GPU
\* of that host has the tag available and a model of the requested set (or
\* the request is all) that is not Null.
C25_GpuCandidate ==
  [][\A i \in DOMAIN df :
       (Places(i) /\ df[i].gpu_requested # <<>>) =>
         \E c \in GpuCols :
           /\ machines[df'[i].name].gpu_status[c] = "available"
           /\ \/ machines[df'[i].name].gpu_name[c] \in Range(df[i].gpu_requested)
              \/ df[i].gpu_requested = <<"all">> /\ machines[df'[i].name].gpu_name[c] # NaN
           /\ machines[df'[i].name].gpu_name[c] # "Null"]_vars

\* the free CPUs of host h, and whether one of its GPU columns holds "Null"
CpuFree(h) == HostCfg[h].allowed_cpu - machines[h].cpu_used
HasNull(h) == \E c \in GpuCols : machines[h].gpu_name[c] = "Null"
\* host h has a GPU that is available and of a model in req
GpuFits(h, req) ==
  \E c \in GpuCols :
    /\ machines[h].gpu_status[c] = "available"
    /\ machines[h].gpu_name[c] \in Range(req)

\* the CPU condition of a GPU-less row of n CPUs on host h
CpuMargin(h, n) == IF HasNull(h) THEN CpuFree(h) >= n ELSE CpuFree(h) - n_cpu_reserve >= n

\* C26 (as stated): the row a tick dispatches as pending is placed only on a
\* host that passes the CPU condition, and it is placed when a host passes:
\* for a GPU-less row allowed_cpu - 6 - cpu_used >= n_cpu (allowed_cpu -
\* cpu_used >= n_cpu on a host without GPUs), for a row with a GPU request
\* allowed_cpu - cpu_used >= n_cpu for every n_cpu.
C26_ReserveMargin ==
  [][DispatchPending =>
       LET i == cursor
           n == df[i].n_cpu
           req == df[i].gpu_requested
       IN /\ Places(i) =>
               IF req # <<>> THEN CpuFree(df'[i].name) >= n ELSE CpuMargin(df'[i].name, n)
          /\ (req # <<>> /\ \E h \in HostSet : CpuFree(h) >= n /\ GpuFits(h, req)) => Places(i)
          /\ (req = <<>> /\ \E h \in HostSet : CpuMargin(h, n)) => Places(i)]_vars

\* C26 (amended): as C26_ReserveMargin, but a row with a GPU request passes on
\* allowed_cpu - cpu_used >= n_cpu only when n_cpu <= 6; with n_cpu > 6 it
\* needs allowed_cpu - 6 - cpu_used >= n_cpu.
C26_ReserveMarginUpToReserve ==
  [][DispatchPending =>
       LET i == cursor
           n == df[i].n_cpu
           req == df[i].gpu_requested
           CpuGpu(h) == IF n <= n_cpu_reserve THEN CpuFree(h) >= n
                        ELSE CpuFree(h) - n_cpu_reserve >= n
       IN /\ Places(i) =>
               IF req # <<>> THEN CpuGpu(df'[i].name) ELSE CpuMargin(df'[i].name, n)
          /\ (req # <<>> /\ \E h \in HostSet : ~HasNull(h) /\ CpuGpu(h) /\ GpuFits(h, req))
               => Places(i)
          /\ (req = <<>> /\ \E h \in HostSet : CpuMargin(h, n)) => Places(i)]_vars

\* a tick has left pending a row that asks for GPU B and 7 CPUs while h2 has
\* B available and 8 CPUs free, and a GPU-less row of 5 CPUs
C26_Witness ==
  /\ EndOfTick
  /\ \E i \in DOMAIN df :
       /\ snap[i] = "pending" /\ df[i].status = "pending"
       /\ df[i].gpu_requested = <<"B">> /\ df[i].n_cpu = 7
       /\ CpuFree("h2") = 8 /\ GpuFits("h2", <<"B">>)
  /\ \E j \in DOMAIN df :
       /\ snap[j] = "pending" /\ df[j].status = "pending"
       /\ df[j].gpu_requested = <<>> /\ df[j].n_cpu = 5

\* two jobs of one user that ask for GPU B, on an h2 with two GPUs of model B
TwinScenarios ==
  { [rows |-> <<Job("u2", 2, <<"B">>), Job("u2", 2, <<"B">>)>>, smtp |-> TRUE, scp |-> TRUE] }
InitTwin == InitFrom(TwinScenarios) /\ gpus = TwinGpus /\ users = Users
SpecTwin == InitTwin /\ [][Next]_vars

\* the GPU columns of host h that are available and of a model in req
Matching(h, req) ==
  {c \in GpuCols : /\ machines[h].gpu_status[c] = "available"
                   /\ machines[h].gpu_name[c] \in Range(req)}
Min(S) == CHOOSE x \in S : \A y \in S : x <= y

\* C27: a GPU job is placed only on a host with an available GPU of a
\* requested model (so a later row of the tick stays pending once the earlier
\* rows have taken them), it is assigned the lowest index among those GPUs,
\* and only that GPU is marked running.
C27_FirstGpuOnly ==
  [][\A i \in DOMAIN df :
       (Places(i) /\ alive' /\ df[i].gpu_requested # <<>>) =>
         LET h == df'[i].name
             match == Matching(h, df[i].gpu_requested)
         IN /\ match # {}
            /\ df'[i].gpu_index = Min(match) - 1
            /\ df'[i].gpu_name = machines[h].gpu_name[Min(match)]
            /\ \A c \in GpuCols :
                 machines'[h].gpu_status[c] =
                   IF c = Min(match) THEN "running" ELSE machines[h].gpu_status[c]]_vars

\* C28: after the host-table refresh of a tick, every GPU column of every host
\* that no running job holds is tagged available when its model is one of the
\* names of the host's name_allowed_gpu, whatever the position of the name,
\* and bloqueada otherwise (a column without a model included).
C28_TagByAllowList ==
  [][TickBegin =>
       \A h \in HostSet : \A c \in GpuCols :
         machines'[h].gpu_status[c] # "running" =>
           machines'[h].gpu_status[c] =
             IF machines'[h].gpu_name[c] \in Range(HostCfg[h].name_allowed_gpu)
             THEN "available" ELSE "bloqueada"]_vars

\* the n smallest non-negative integers that are not in taken (taken holds
\* cores below limit)
Smallest(taken, limit, n) ==
  LET free == (0..(limit + n - 1)) \ taken
  IN {x \in free : Cardinality({y \in free : y < x}) < n}

\* C29: the taskset a placement gives a row of n_cpu = K on host H is made of
\* the K smallest non-negative integers that are in the taskset of no other
\* row that is running, copy_finished or copying on H.
C29_SmallestFreeCores ==
  [][\A i \in DOMAIN df :
       (Places(i) /\ alive') =>
         LET h == df'[i].name
             used == UNION {df[k].taskset.cores :
                              k \in {x \in DOMAIN df : /\ x # i
                                                       /\ df[x].name = h
                                                       /\ df[x].status \in OnHostStates}}
         IN df'[i].taskset.cores = Smallest(used, HostCfg[h].allowed_cpu, df[i].n_cpu)]_vars

\* users.csv holds the row of u1 only; a job of u1 and a job of u3, or two
\* jobs of u1
UserScenarios ==
  { [rows |-> <<Job("u1", 2, <<>>), Job("u3", 1, <<>>)>>, smtp |-> TRUE, scp |-> TRUE],
    [rows |-> <<Job("u1", 2, <<>>), Job("u1", 1, <<>>)>>, smtp |-> TRUE, scp |-> TRUE] }
InitUsers == InitFrom(UserScenarios) /\ gpus = MixedGpus /\ users = UsersNoDefault
SpecUsers == InitUsers /\ [][Next]_vars

\* C30: the limit check of a row comes back with a boolean for every user,
\* one with neither a row of its own nor a default row included (the built-in
\* job-cap 2 then applies and a row of that user can be placed): no row makes
\* the check raise.
C30_LookupDefined ==
  \A i \in DOMAIN df : (cursor = i /\ i \in DOMAIN snap) => ~limit_job_raises(df, i)

\* C31: on every host cpu_used is at least 0 and at most allowed_cpu, between
\* any two steps of the scheduler.
C31_CpuWithinBudget ==
  \A h \in DOMAIN machines :
    machines[h].cpu_used >= 0 /\ machines[h].cpu_used <= HostCfg[h].allowed_cpu

\* one tick has placed both rows on h1 and they fill it
C31_Witness ==
  /\ EndOfTick /\ placedNow = {1, 2}
  /\ \A k \in {1, 2} : df[k].name = "h1"
  /\ machines["h1"].cpu_used = HostCfg["h1"].allowed_cpu

\* C32: a row whose launcher has been started on a host (its execution
\* directory holds a labmonitor.status) is never pending again, so it is never
\* placed and launched a second time.
C32_LaunchedNeverPending ==
  \A i \in DOMAIN df : i \notin noFile => df[i].status # "pending"

\* ------------------------------------------ the dashboard submits a job
\* submit_job of the dashboard page, in its own process with its own QueueJob:
\* read_csv, submit (concat of the new row, save).  The three calls are taken
\* as one step.
dashboard_submit(f, job) == to_csv(Append(read_csv(f), read_csv(<<submit(job)>>)[1]))

Submit ==
  /\ Len(disk) = Len(startMails) /\ Len(disk) < MaxJobs
  /\ disk' = dashboard_submit(disk, Job("u2", 1, <<>>))
  /\ workers' = Append(workers, <<0, 0>>)
  /\ startMails' = Append(startMails, 0)
  /\ endMails' = Append(endMails, 0)
  /\ noFile' = noFile \cup {Len(disk) + 1}
  /\ UNCHANGED <<df, machines, cursor, snap, alive, smtp, scp, ranAtLoad, placedNow,
                 probeFail, ordPairs, deadPid, outFail, restarted>>

\* the table the supervisor starts on: one job
SubmitScenarios ==
  { [rows |-> <<Job("u2", 2, <<>>)>>, smtp |-> TRUE, scp |-> TRUE] }
InitSubmit == InitFrom(SubmitScenarios) /\ StockConfig
NextSubmit ==
  \/ Next
  \/ Submit /\ UNCHANGED <<rvars, fvars, tvars, hvars, pvars, cvars>>
SpecSubmit == InitSubmit /\ [][NextSubmit]_vars

\* C33: every row the dashboard has submitted (appended and saved) is in the
\* jobs table file, whatever the supervisor and its copy-back workers were
\* doing when it was submitted.
C33_SubmittedRowKept == Len(disk) = Len(startMails)

\* the copy-back threads of row i that have not ended
Live(i) == workers[i][1] + workers[i][2]

\* C34: the dispatcher starts a copy-back thread for a row, from
\* __copy_finished or from __not_finished_correctly, only when no copy-back
\* thread of that row is live.
C34_OneWorkerPerRow ==
  [][(\/ DispatchCopyFinished
      \/ DispatchNotFinishedCorrectly /\ df[cursor].notification_end = "N")
       => Live(cursor) = 0]_vars

\* ------------------------------------------------------ fair scheduling
\* monitor runs a tick every feq_time seconds and a tick runs to its end; a
\* thread that was started runs.  A restart is not owed.
TickStep ==
  \/ TickBegin \/ DispatchSkip \/ DispatchPending \/ DispatchCopyFinished
  \/ DispatchFinished \/ DispatchNotFinishedCorrectly \/ TickEnd

InitLive == InitFrom(SubmitScenarios) /\ StockConfig
SpecLive ==
  /\ InitLive /\ [][Next]_vars
  /\ WF_vars(TickStep /\ UNCHANGED <<rvars, fvars, tvars, hvars, pvars, cvars>>)
  /\ WF_vars(WorkerFlip /\ UNCHANGED <<rvars, fvars, tvars, hvars, pvars, cvars>>)
  /\ WF_vars(WorkerCopy /\ UNCHANGED <<rvars, fvars, tvars, hvars, pvars, cvars>>)

\* C35: with ticks that keep coming and threads that run, a placed row that a
\* probe has set to started, or that is copying (a restart of the supervisor
\* in between included), reaches a terminal state.
C35_PlacedRowEnds ==
  \A i \in 1..MaxJobs :
    (i \in DOMAIN df /\ df[i].status \in {"started", "copying"})
      ~> (i \in DOMAIN df /\ df[i].status \in Terminal)

\* C36: when queue_job.csv is absent and its _old backup is there, loading the
\* jobs table does not give an empty table, and no later save puts an empty
\* table in the place of the backup.
C36_BackupNotEmptied ==
  files["jobs"].file # "empty" /\ files["jobs"].old # "empty"

\* C37: the dispatch loop skips no row that the tick found copy_finished,
\* finished or not_finished_correctly, however many rows of its user are
\* running.
C37_LimitGatesPlacementOnly ==
  [][DispatchSkip =>
       snap[cursor] \notin {"copy_finished", "finished", "not_finished_correctly"}]_vars

\* C38: once a row is finished, copy_fail or not_finished_correctly and its
\* fim cell holds a time, no step changes the cell.
C38_FimWrittenOnce ==
  [][\A i \in DOMAIN df :
       (df[i].status \in Terminal /\ df[i].fim # NaT) => df'[i].fim = df[i].fim]_vars

\* C39: the gpu_index and gpu_name cells of a row submitted without a GPU
\* request are empty in every state, so every launch of the row gets gpu_id -1.
C39_NoGpuForCpuJob ==
  \A i \in DOMAIN df :
    df[i].gpu_requested = <<>> => (df[i].gpu_index = NaNIdx /\ df[i].gpu_name = NaN)

\* C40: a remove(index) that deletes a row deletes exactly one row, and it
\* is the row at position index of the table (the row e = df.iloc[index]
\* whose owner gets the cancellation mail), whatever inserts and removes
\* came before.
C40_RemoveSameRow ==
  [][(TripRemove /\ Len(qdf') < Len(qdf)) =>
       /\ Len(qdf') = Len(qdf) - 1
       /\ \A k \in DOMAIN labels :
            (\A j \in DOMAIN labels' : labels'[j] # labels[k]) => k = labels[k] + 1]_vars

====
